---- MODULE Spec2Model ----
(***************************************************************************)
(* Model of the context-switching core of the coroutine runtime:           *)
(*   coroutine/src/runtime.rs  Context, ContextStack, is_generator,        *)
(*                             type_error, get_local_data                  *)
(*   coroutine/src/done.rs     Done::drop_coroutine, Done::subscribe       *)
(* The switching engine itself (spawn, resume, yield, body return, failure *)
(* capture) is not part of these files; it is modelled from the design     *)
(* document and drives the accessors above.                                *)
(***************************************************************************)
EXTENDS Integers, Sequences, FiniteSets, TLC

(* ------------------------------ bounds --------------------------------- *)
MaxCtx    == 2      \* contexts that can be spawned besides the root
MaxVal    == 2      \* transferred values are 1..MaxVal
MaxResume == 2      \* resume calls on the thread
MaxSize   == 2      \* stack capacities are 1..MaxSize
MaxThread == 2      \* OS threads of the several-threads specification

(* ----------------------------- encodings ------------------------------- *)
NULL  == 0                       \* the null pointer
ROOT  == 1                       \* address of the thread's leaked root context
NONE  == 0                       \* Option::None; Some(v) is v > 0
Ctxs  == 2..(MaxCtx + 1)         \* addresses of spawned contexts
Addrs == {ROOT} \cup Ctxs
Vals  == 1..MaxVal
Sizes == 1..MaxSize
Types == {"i32", "String"}       \* dynamic types a holder can have
Payloads == {"TypeErr", "Custom"}   \* unwinding payloads
NoErr == "None"                  \* the empty Option<Box<dyn Any + Send>>

\* a *mut dyn Any: null, or the address of a holder Option<ty> with content val
NullHolder == [nul |-> TRUE, ty |-> "-", val |-> NONE]
Holder(ty, v) == [nul |-> FALSE, ty |-> ty, val |-> v]

\* address of the local-storage block attached to coroutine c
LocalPtr(c) == 100 + c

VARIABLES
    root_p,      \* ROOT_CONTEXT_P, the thread-local root pointer
    ctx,         \* the Context records, by address
    st,          \* position of each context's body
    nres,        \* resume calls made so far
    pend,        \* what the thread is in the middle of
    res,         \* the last accessor call: its inputs and its outcome
    fin,         \* the last run of the completion handler: its inputs and its log
    written,     \* values written to the outbound slot by yields, per context
    observed,    \* values the resume calls got when those yields returned
    raised,      \* payload a body failed with
    delivered,   \* payloads handed to the resumer, per context
    doneCount,   \* runs of the completion handler, per coroutine
    pool,        \* coroutines put into the scheduler's pool
    exited,      \* std::process::exit(1) was called
    gen_types,   \* the types A (sent) and T (yielded) of the program's generators
    th           \* several threads: their root pointers and their contexts

vars == <<root_p, ctx, st, nres, pend, res, fin, written, observed, raised,
          delivered, doneCount, pool, exited, gen_types, th>>

(* --------------------------- runtime.rs -------------------------------- *)

\* Context::new leaving a stale failure in the err field
Context_new_stale_err ==
    [child |-> NULL, parent |-> NULL, para |-> NullHolder, ret |-> NullHolder,
     _ref |-> 1, local_data |-> NULL, err |-> "Custom"]

\* Context::new
Context_new ==
    [child |-> NULL, parent |-> NULL, para |-> NullHolder, ret |-> NullHolder,
     _ref |-> 1, local_data |-> NULL, err |-> NoErr]

\* type_error: panics with Error::TypeErr
type_error == "TypeErr"

\* Context::is_generator comparing the parent with the root
Context_is_generator_root(cx, c) == cx[c].parent # ROOT

\* Context::is_generator
Context_is_generator(cx, c) == cx[c].parent # c

\* get_para without the downcast check (the body of coroutine_get_para)
get_para_unchecked(c, T) ==
    IF c.para.nul
      THEN [out |-> "AssertFail", val |-> NONE, c |-> c]
      ELSE [out |-> "Ok", val |-> c.para.val, c |-> [c EXCEPT !.para.val = NONE]]

\* get_para reading the Option without take()
get_para_no_take(c, T) ==
    IF c.para.nul
      THEN [out |-> "AssertFail", val |-> NONE, c |-> c]
      ELSE IF c.para.ty = T
        THEN [out |-> "Ok", val |-> c.para.val, c |-> c]
        ELSE [out |-> type_error, val |-> NONE, c |-> c]

\* Context::get_para<T>: the outcome, the value returned and the context after
get_para(c, T) ==
    IF c.para.nul
      THEN [out |-> "AssertFail", val |-> NONE, c |-> c]
      ELSE IF c.para.ty = T
        THEN [out |-> "Ok", val |-> c.para.val,
              c |-> [c EXCEPT !.para.val = NONE]]
        ELSE [out |-> type_error, val |-> NONE, c |-> c]

\* coroutine_get_para going through the downcast of get_para
coroutine_get_para_checked(c, T) ==
    IF c.para.ty = T
      THEN {[out |-> "Ok", val |-> c.para.val, c |-> [c EXCEPT !.para.val = NONE]]}
      ELSE {[out |-> type_error, val |-> NONE, c |-> c]}

\* Context::coroutine_get_para<T>: the set of possible outcomes. The pointer is
\* cast to *mut Option<T> without a look at the holder's type: on a holder of
\* another type the take() reads and writes reinterpreted memory, which gives
\* any value back, leaves any content behind, or ends the process
coroutine_get_para(c, T) ==
    IF c.para.ty = T
      THEN {[out |-> "Ok", val |-> c.para.val, c |-> [c EXCEPT !.para.val = NONE]]}
      ELSE {[out |-> "Ok", val |-> g, c |-> [c EXCEPT !.para.val = h]] :
                g \in {NONE} \cup Vals, h \in {NONE} \cup Vals}
           \cup {[out |-> "Abort", val |-> NONE, c |-> c]}

\* Context::coroutine_set_para<T>: the set of possible outcomes, the write
\* going through the same cast
coroutine_set_para(c, T, data) ==
    IF c.para.ty = T
      THEN {[out |-> "Ok", val |-> NONE, c |-> [c EXCEPT !.para.val = data]]}
      ELSE {[out |-> "Ok", val |-> NONE, c |-> [c EXCEPT !.para.val = h]] :
                h \in {NONE} \cup Vals}
           \cup {[out |-> "Abort", val |-> NONE, c |-> c]}

\* set_ret clearing the holder before it looks at its type
set_ret_clobber(c, T, v) ==
    IF c.ret.ty = T
      THEN [out |-> "Ok", c |-> [c EXCEPT !.ret.val = v]]
      ELSE [out |-> type_error, c |-> [c EXCEPT !.ret.val = NONE]]

\* set_ret whose matching arm forgets the assignment
set_ret_lost(c, T, v) ==
    IF c.ret.ty = T
      THEN [out |-> "Ok", c |-> c]
      ELSE [out |-> type_error, c |-> c]

\* Context::set_ret<T>
set_ret(c, T, v) ==
    IF c.ret.ty = T
      THEN [out |-> "Ok", c |-> [c EXCEPT !.ret.val = v]]
      ELSE [out |-> type_error, c |-> c]

\* Context::coroutine_set_ret<T>: the set of possible outcomes, the write
\* going through the same cast
coroutine_set_ret(c, T, v) ==
    IF c.ret.ty = T
      THEN {[out |-> "Ok", val |-> NONE, c |-> [c EXCEPT !.ret.val = v]]}
      ELSE {[out |-> "Ok", val |-> NONE, c |-> [c EXCEPT !.ret.val = h]] :
                h \in {NONE} \cup Vals}
           \cup {[out |-> "Abort", val |-> NONE, c |-> c]}

\* ContextStack::init_root leaving the root's parent as Context::new made it
init_root_null_parent(cx, p) == [cx EXCEPT ![p] = Context_new]

\* the thread_local! ROOT_CONTEXT_P as one static shared by all threads
tls_slot_static(t) == 1

\* thread_local! ROOT_CONTEXT_P: the cell thread t reads and writes
tls_slot(t) == t

\* ContextStack::init_root, p being the address Box::new hands out
init_root(cx, p) == [cx EXCEPT ![p] = [Context_new EXCEPT !.parent = p]]

\* ContextStack::current building a root on every call
current_reinit(rp, cx, p) == [root |-> p, cx |-> init_root(cx, p)]

\* ContextStack::current, p being the address a new root would get
current(rp, cx, p) ==
    IF rp = NULL THEN [root |-> p, cx |-> init_root(cx, p)]
                 ELSE [root |-> rp, cx |-> cx]

\* ContextStack::top answering with the root
top_root(env) == env.root

\* ContextStack::top answering with the context linked directly under the root
top_of_child(env) ==
    IF env.cx[env.root].child = NULL THEN env.root ELSE env.cx[env.root].child

\* ContextStack::top
top(env) == env.cx[env.root].parent

RECURSIVE walk_ctx(_, _, _)
walk_ctx(cx, root, c) ==
    IF c = root THEN NULL
    ELSE IF cx[c].local_data # NULL THEN c
    ELSE walk_ctx(cx, root, cx[c].parent)

\* coroutine_ctx returning the top context without looking at local_data
coroutine_ctx_top(env) ==
    IF env.cx[env.root].parent = env.root THEN NULL ELSE env.cx[env.root].parent

\* ContextStack::coroutine_ctx (NULL stands for None)
coroutine_ctx(env) == walk_ctx(env.cx, env.root, env.cx[env.root].parent)

\* is_generator looking at the top context's child instead of the root's
is_generator_of_top(env) == env.cx[env.cx[env.root].parent].child # NULL

\* is_generator (free function)
is_generator(env) == env.cx[env.root].child # NULL

RECURSIVE walk_local(_, _, _)
walk_local(cx, root, c) ==
    IF c = root THEN NULL
    ELSE IF cx[c].local_data # NULL THEN cx[c].local_data
    ELSE walk_local(cx, root, cx[c].parent)

\* get_local_data
get_local_data(env) == walk_local(env.cx, env.root, env.cx[env.root].parent)

(* ----------------------------- done.rs --------------------------------- *)

\* drop_coroutine testing used > size instead of used == size
drop_coroutine_gt(size, usedb, ssz, cfg) ==
    IF usedb > size
      THEN [exit |-> TRUE, log |-> "error", put |-> FALSE]
      ELSE [exit |-> FALSE, log |-> IF ssz % 2 = 1 THEN "debug" ELSE "-",
            put |-> (size = cfg)]

\* drop_coroutine putting every finished stack into the pool
drop_coroutine_put_all(size, usedb, ssz, cfg) ==
    IF usedb = size
      THEN [exit |-> TRUE, log |-> "error", put |-> FALSE]
      ELSE [exit |-> FALSE, log |-> IF ssz % 2 = 1 THEN "debug" ELSE "-",
            put |-> TRUE]

\* stack usage that is high relative to the capacity: half of it or more
HighUsage(usedb, size) == 2 * usedb >= size

\* drop_coroutine reporting when the usage is high instead of when the low bit
\* of the requested stack size is set
drop_coroutine_usage(size, usedb, ssz, cfg) ==
    IF usedb = size
      THEN [exit |-> TRUE, log |-> "error", put |-> FALSE]
      ELSE [exit |-> FALSE, log |-> IF HighUsage(usedb, size) THEN "debug" ELSE "-",
            put |-> (size = cfg)]

\* Done::drop_coroutine: outcome for a coroutine with stack_usage() = (size, used),
\* requested stack_size ssz, under the configured default cfg
drop_coroutine(size, usedb, ssz, cfg) ==
    IF usedb = size
      THEN [exit |-> TRUE, log |-> "error", put |-> FALSE]
      ELSE [exit |-> FALSE, log |-> IF ssz % 2 = 1 THEN "debug" ELSE "-",
            put |-> (size = cfg)]

(* ------------------------------- state --------------------------------- *)

NoRes == [op |-> "-", c |-> NULL, T |-> "-", before |-> NullHolder,
          v |-> NONE, out |-> "-", val |-> NONE]
NoFin == [c |-> NULL, size |-> 0, used |-> 0, stack_size |-> 0, cfg |-> 0,
          log |-> "-"]
Idle  == [k |-> "run", c |-> NULL]

\* several threads: the thread-local root pointers by cell, the contexts by
\* address (the root boxes first), the thread each spawned context belongs to,
\* and what the last operation did: the thread that ran it, the contexts it
\* wrote and the root pointers it changed
Threads == 1..MaxThread
RootBox(t) == t
TCtxs == (MaxThread + 1)..(MaxThread + MaxCtx)
TAddrs == Threads \cup TCtxs
NoThreads == [rp |-> [t \in Threads |-> NULL], cx |-> [a \in TAddrs |-> Context_new],
              own |-> [a \in TCtxs |-> 0], last |-> 0, touched |-> {}, moved |-> {}]

Init ==
    /\ root_p = NULL
    /\ ctx = [a \in Addrs |-> Context_new]
    /\ st = [a \in Ctxs |-> "none"]
    /\ nres = 0
    /\ pend = Idle
    /\ res = NoRes
    /\ fin = NoFin
    /\ written = [a \in Ctxs |-> <<>>]
    /\ observed = [a \in Ctxs |-> <<>>]
    /\ raised = [a \in Ctxs |-> NoErr]
    /\ delivered = [a \in Ctxs |-> <<>>]
    /\ doneCount = [a \in Ctxs |-> 0]
    /\ pool = {}
    /\ exited = FALSE
    /\ gen_types \in [A : Types, T : Types]
    /\ th = NoThreads

(* ------------------- switching engine (design document) ---------------- *)

\* the environment every operation starts from: ContextStack::current()
Env == current(root_p, ctx, ROOT)

\* the smallest address not yet handed out
FreeCtx == CHOOSE a \in Ctxs : st[a] = "none" /\ \A b \in Ctxs : st[b] = "none" => a <= b

IsCoroutine(cx, c) == cx[c].local_data # NULL

\* resume links the context under the running one and makes it the top
push_context(env, c) ==
    LET t == top(env) IN
    [env.cx EXCEPT ![t].child = c, ![c].parent = t, ![env.root].parent = c]

\* yield, return and failure unlink the top and make its parent the top
pop_context(env, c) ==
    LET p == env.cx[c].parent IN
    [env.cx EXCEPT ![p].child = NULL, ![env.root].parent = p]

\* where control goes when the body of c has handed control back
AfterBody(cx, c, finished) ==
    IF finished /\ IsCoroutine(cx, c) THEN [k |-> "done", c |-> c]
                                      ELSE [k |-> "ret", c |-> c]

\* ContextStack::current() called on its own (any accessor's first step)
Current ==
    /\ ~exited /\ root_p = NULL
    /\ root_p' = Env.root
    /\ ctx' = Env.cx
    /\ UNCHANGED <<st, nres, pend, res, fin, written, observed, raised,
                   delivered, doneCount, pool, exited, gen_types, th>>

\* a generator (coroutine = FALSE) or a coroutine is created; its Context is
\* Context::new(), a coroutine gets its local-storage block attached
Spawn(coroutine) ==
    /\ ~exited /\ pend.k = "run"
    /\ \E a \in Ctxs : st[a] = "none"
    /\ LET c == FreeCtx IN
        /\ root_p' = Env.root
        /\ ctx' = [Env.cx EXCEPT ![c] =
                     [Context_new EXCEPT !.local_data =
                         IF coroutine THEN LocalPtr(c) ELSE NULL]]
        /\ st' = [st EXCEPT ![c] = "fresh"]
    /\ res' = NoRes /\ fin' = NoFin
    /\ UNCHANGED <<nres, pend, written, observed, raised, delivered, doneCount,
                   pool, exited, gen_types, th>>

\* the running context sends v into c and switches to it; the generator object
\* owning c holds an Option<A> for the inbound and an Option<T> for the outbound
\* value, and the slots point at them from the first resume on. The counter
\* moves as the _ref field documents it: "Yield will -1 and Send will +1"
Resume(c, v) ==
    /\ ~exited /\ pend.k = "run"
    /\ st[c] \in {"fresh", "suspended"}
    /\ nres < MaxResume
    /\ LET env == Env
           cx1 == [env.cx EXCEPT ![c].para = Holder(gen_types.A, v),
                                 ![c].ret  = Holder(gen_types.T, NONE),
                                 ![c]._ref = @ + 1]
       IN /\ root_p' = env.root
          /\ ctx' = push_context([root |-> env.root, cx |-> cx1], c)
    /\ st' = [st EXCEPT ![c] = "running"]
    /\ nres' = nres + 1
    /\ res' = NoRes /\ fin' = NoFin
    /\ UNCHANGED <<pend, written, observed, raised, delivered, doneCount,
                   pool, exited, gen_types, th>>

\* the environment once an accessor called on c has left the context as c1
AfterCall(env, c, c1) == [root |-> env.root, cx |-> [env.cx EXCEPT ![c] = c1]]

\* the body of c fails with payload p: the failure is captured in the context
\* and control goes back to the parent
Fail(env, c, p) ==
    /\ root_p' = env.root
    /\ ctx' = pop_context([root |-> env.root,
                           cx |-> [env.cx EXCEPT ![c].err = p]], c)
    /\ st' = [st EXCEPT ![c] = "failed"]
    /\ raised' = [raised EXCEPT ![c] = p]
    /\ pend' = AfterBody(env.cx, c, TRUE)

\* the running body reads its inbound value as an Option<T>
GetPara(T) ==
    /\ ~exited /\ pend.k = "run" /\ root_p # NULL
    /\ LET env == Env
           c   == top(env)
       IN /\ IsCoroutine(env.cx, c) => T = env.cx[c].para.ty
          /\ \E r \in (IF IsCoroutine(env.cx, c)
                        THEN coroutine_get_para(env.cx[c], T)
                        ELSE {get_para(env.cx[c], T)}) :
              /\ res' = [op |-> IF IsCoroutine(env.cx, c) THEN "coroutine_get_para"
                                                          ELSE "get_para",
                         c |-> c, T |-> T,
                         before |-> env.cx[c].para, v |-> NONE,
                         out |-> r.out, val |-> r.val]
              /\ IF r.out = "Ok" \/ c = ROOT
                   THEN /\ root_p' = env.root
                        /\ ctx' = [env.cx EXCEPT ![c] = r.c]
                        /\ UNCHANGED <<st, raised, pend>>
                   ELSE Fail(AfterCall(env, c, r.c), c, r.out)
    /\ fin' = NoFin
    /\ UNCHANGED <<nres, written, observed, delivered, doneCount, pool, exited,
                   gen_types, th>>

\* the running body yields v as a T: writes the outbound slot, switches back
Yield(T, v) ==
    /\ ~exited /\ pend.k = "run" /\ root_p # NULL
    /\ LET env == Env
           c   == top(env)
       IN /\ c # ROOT
          /\ IsCoroutine(env.cx, c) => T = env.cx[c].ret.ty
          /\ \E r \in (IF IsCoroutine(env.cx, c)
                        THEN coroutine_set_ret(env.cx[c], T, v)
                        ELSE {set_ret(env.cx[c], T, v)}) :
              /\ res' = [op |-> IF IsCoroutine(env.cx, c) THEN "coroutine_set_ret"
                                                          ELSE "set_ret",
                         c |-> c, T |-> T,
                         before |-> env.cx[c].ret, v |-> v,
                         out |-> r.out, val |-> NONE]
              /\ IF r.out = "Ok"
                   THEN /\ root_p' = env.root
                        /\ ctx' = pop_context(
                                    [root |-> env.root,
                                     cx |-> [env.cx EXCEPT ![c] =
                                               [r.c EXCEPT !._ref = @ - 1]]], c)
                        /\ st' = [st EXCEPT ![c] = "suspended"]
                        /\ written' = [written EXCEPT ![c] = Append(@, v)]
                        /\ pend' = AfterBody(env.cx, c, FALSE)
                        /\ UNCHANGED raised
                   ELSE /\ Fail(AfterCall(env, c, r.c), c, r.out)
                        /\ UNCHANGED written
    /\ fin' = NoFin
    /\ UNCHANGED <<nres, observed, delivered, doneCount, pool, exited,
                   gen_types, th>>

\* the accessors of the coroutine path, by name
UncheckedOps == {"coroutine_get_para", "coroutine_set_para", "coroutine_set_ret"}

\* the running body of a coroutine calls an accessor of the coroutine path
\* itself, with a type parameter of its own choosing; the call never unwinds,
\* and when the reinterpreted access ends the process nothing runs any more
Unchecked(op, T, v) ==
    /\ ~exited /\ pend.k = "run" /\ root_p # NULL
    /\ LET env == Env
           c   == top(env)
       IN /\ c # ROOT /\ IsCoroutine(env.cx, c)
          /\ op = "coroutine_get_para" => v = 1      \* a read has no argument
          /\ \E r \in (CASE op = "coroutine_get_para" -> coroutine_get_para(env.cx[c], T)
                        [] op = "coroutine_set_para" -> coroutine_set_para(env.cx[c], T, v)
                        [] op = "coroutine_set_ret"  -> coroutine_set_ret(env.cx[c], T, v)) :
              /\ res' = [op |-> op, c |-> c, T |-> T,
                         before |-> IF op = "coroutine_set_ret" THEN env.cx[c].ret
                                                                ELSE env.cx[c].para,
                         v |-> IF op = "coroutine_get_para" THEN NONE ELSE v,
                         out |-> r.out, val |-> r.val]
              /\ IF r.out = "Ok"
                   THEN /\ root_p' = env.root
                        /\ ctx' = [env.cx EXCEPT ![c] = r.c]
                        /\ UNCHANGED <<st, raised, pend>>
                   ELSE IF r.out = "Abort"
                     THEN /\ pend' = [k |-> "abort", c |-> c]
                          /\ UNCHANGED <<root_p, ctx, st, raised>>
                     ELSE Fail(AfterCall(env, c, r.c), c, r.out)
    /\ fin' = NoFin
    /\ UNCHANGED <<nres, written, observed, delivered, doneCount, pool, exited,
                   gen_types, th>>

\* the running body of a generator writes its outbound slot through set_ret
\* without switching back
SetRet(T, v) ==
    /\ ~exited /\ pend.k = "run" /\ root_p # NULL
    /\ LET env == Env
           c   == top(env)
           r   == set_ret(env.cx[c], T, v)
       IN /\ c # ROOT /\ ~IsCoroutine(env.cx, c)
          /\ res' = [op |-> "set_ret", c |-> c, T |-> T,
                     before |-> env.cx[c].ret, v |-> v,
                     out |-> r.out, val |-> NONE]
          /\ IF r.out = "Ok"
               THEN /\ root_p' = env.root
                    /\ ctx' = [env.cx EXCEPT ![c] = r.c]
                    /\ UNCHANGED <<st, raised, pend>>
               ELSE Fail(AfterCall(env, c, r.c), c, r.out)
    /\ fin' = NoFin
    /\ UNCHANGED <<nres, written, observed, delivered, doneCount, pool, exited,
                   gen_types, th>>

\* the running body returns
Return ==
    /\ ~exited /\ pend.k = "run" /\ root_p # NULL
    /\ LET env == Env
           c   == top(env)
       IN /\ c # ROOT
          /\ root_p' = env.root
          /\ ctx' = pop_context(env, c)
          /\ st' = [st EXCEPT ![c] = "returned"]
          /\ pend' = AfterBody(env.cx, c, TRUE)
    /\ res' = NoRes /\ fin' = NoFin
    /\ UNCHANGED <<nres, written, observed, raised, delivered, doneCount, pool,
                   exited, gen_types, th>>

\* the running body fails with a payload of its own
Panic(p) ==
    /\ ~exited /\ pend.k = "run" /\ root_p # NULL
    /\ LET env == Env
           c   == top(env)
       IN /\ c # ROOT
          /\ Fail(env, c, p)
    /\ res' = NoRes /\ fin' = NoFin
    /\ UNCHANGED <<nres, written, observed, delivered, doneCount, pool, exited,
                   gen_types, th>>

\* subscribe that leaves the finished event queued, so the handler runs again
Subscribe_again(size, u, ssz, cfg) ==
    /\ ~exited /\ pend.k = "done"
    /\ u <= size
    /\ LET c == pend.c
           d == drop_coroutine(size, u, ssz, cfg)
       IN /\ doneCount' = [doneCount EXCEPT ![c] = @ + 1]
          /\ fin' = [c |-> c, size |-> size, used |-> u, stack_size |-> ssz,
                     cfg |-> cfg, log |-> d.log]
          /\ exited' = d.exit
          /\ pool' = IF d.put THEN pool \cup {c} ELSE pool
          /\ pend' = pend
    /\ res' = NoRes
    /\ UNCHANGED <<root_p, ctx, st, nres, written, observed, raised, delivered,
                   gen_types, th>>

\* Done::subscribe: the completion handler of the finished coroutine, run on
\* the parent's stack; stack_usage() gives (size, u), stack_size() gives ssz
\* and config().get_stack_size() gives cfg
Subscribe(size, u, ssz, cfg) ==
    /\ ~exited /\ pend.k = "done"
    /\ u <= size
    /\ LET c == pend.c
           d == drop_coroutine(size, u, ssz, cfg)
       IN /\ doneCount' = [doneCount EXCEPT ![c] = @ + 1]
          /\ fin' = [c |-> c, size |-> size, used |-> u, stack_size |-> ssz,
                     cfg |-> cfg, log |-> d.log]
          /\ exited' = d.exit
          /\ pool' = IF d.put THEN pool \cup {c} ELSE pool
          /\ pend' = IF d.exit THEN pend ELSE [k |-> "ret", c |-> c]
    /\ res' = NoRes
    /\ UNCHANGED <<root_p, ctx, st, nres, written, observed, raised, delivered,
                   gen_types, th>>

\* the resume call returns on the parent's stack: it takes the outbound value
\* and the captured failure
ResumeReturn ==
    /\ ~exited /\ pend.k = "ret"
    /\ LET c == pend.c IN
        /\ ctx' = [ctx EXCEPT ![c].ret.val = NONE, ![c].err = NoErr]
        /\ observed' = [observed EXCEPT ![c] =
                          IF st[c] = "suspended" THEN Append(@, ctx[c].ret.val) ELSE @]
        /\ delivered' = [delivered EXCEPT ![c] =
                          IF ctx[c].err # NoErr THEN Append(@, ctx[c].err) ELSE @]
    /\ pend' = Idle
    /\ res' = NoRes /\ fin' = NoFin
    /\ UNCHANGED <<root_p, st, nres, written, raised, doneCount, pool, exited,
                   gen_types, th>>

Next ==
    \/ Current
    \/ \E co \in BOOLEAN : Spawn(co)
    \/ \E c \in Ctxs, v \in Vals : Resume(c, v)
    \/ \E T \in Types : GetPara(T)
    \/ \E T \in Types, v \in Vals : Yield(T, v)
    \/ Return
    \/ \E p \in Payloads \ {type_error} : Panic(p)
    \/ \E size \in Sizes, u \in 0..MaxSize, ssz \in Sizes, cfg \in Sizes :
          Subscribe(size, u, ssz, cfg)
    \/ ResumeReturn

Spec == Init /\ [][Next]_vars

\* programs that, besides using the typed generator and coroutine wrappers,
\* call the public accessors of Context directly
NextDirect ==
    \/ Next
    \/ \E op \in UncheckedOps, T \in Types, v \in Vals : Unchecked(op, T, v)
    \/ \E T \in Types, v \in Vals : SetRet(T, v)

SpecDirect == Init /\ [][NextDirect]_vars

TypeOK ==
    /\ root_p \in {NULL, ROOT}
    /\ \A a \in Addrs : ctx[a].parent \in {NULL} \cup Addrs
    /\ \A a \in Addrs : ctx[a].child \in {NULL} \cup Addrs

(* ------------------------- what the claims say ------------------------- *)

\* the contexts linked under the root, outermost first, by child links
RECURSIVE ChainFrom(_, _)
ChainFrom(cx, c) == IF c = NULL THEN <<>> ELSE <<c>> \o ChainFrom(cx, cx[c].child)
Chain == ChainFrom(Env.cx, Env.cx[ROOT].child)

\* the innermost context of a chain that carries local storage (NULL: none)
RECURSIVE InnermostCoroutine(_, _)
InnermostCoroutine(cx, ch) ==
    IF ch = <<>> THEN NULL
    ELSE IF cx[ch[Len(ch)]].local_data # NULL THEN ch[Len(ch)]
    ELSE InnermostCoroutine(cx, SubSeq(ch, 1, Len(ch) - 1))

YieldInFlight(c) == pend.k = "ret" /\ pend.c = c /\ st[c] = "suspended"

\* C1: the values the resume calls observe are, in order, the values the
\* yields wrote to the outbound slot: none dropped, duplicated or reordered,
\* the last one being in the slot while its resume call is returning.
C1_TransferInOrder ==
    \A c \in Ctxs :
        /\ Len(observed[c]) <= Len(written[c])
        /\ \A k \in 1..Len(observed[c]) : observed[c][k] = written[c][k]
        /\ Len(written[c]) = Len(observed[c]) + (IF YieldInFlight(c) THEN 1 ELSE 0)
        /\ YieldInFlight(c) => ctx[c].ret.val = written[c][Len(written[c])]

C1_Witness ==
    \E c \in Ctxs : Len(observed[c]) = 2 /\ observed[c][1] # observed[c][2]

\* C2: a checked accessor called on a slot whose holder has another dynamic
\* type than Option<T> raises TypeErr: it returns no value, does not touch the
\* slot, and the body it was called from has failed with that payload.
C2_MismatchRaisesTypeErr ==
    (res.op \in {"get_para", "set_ret"} /\ ~res.before.nul /\ res.before.ty # res.T)
      => /\ res.out = "TypeErr"
         /\ res.val = NONE
         /\ st[res.c] = "failed" /\ raised[res.c] = "TypeErr"
         /\ IF res.op = "get_para" THEN ctx[res.c].para = res.before
                                   ELSE ctx[res.c].ret = res.before

C2_Witness ==
    /\ res.op = "get_para" /\ ~res.before.nul /\ res.before.ty # res.T
    /\ res.before.val # NONE /\ res.out = "TypeErr"

\* C3: get_para on a slot holding Some(v) of type T returns Some(v) and leaves
\* the slot empty, and an empty slot stays empty until the next send, so
\* further get_para calls return None.
C3_Consumed ==
    (res.op = "get_para" /\ res.out = "Ok")
      => /\ res.val = res.before.val
         /\ ctx[res.c].para.val = NONE
C3_OnlySendRefills ==
    \A c \in Ctxs :
        (~ctx[c].para.nul /\ ctx[c].para.val = NONE /\ ctx'[c].para.val # NONE)
          => (st[c] # "running" /\ st'[c] = "running" /\ nres' = nres + 1)
\* C3, both parts: what a successful get_para leaves behind, in every state,
\* and that only a send puts a value into an emptied slot, in every step.
C3_GetParaConsumes == []C3_Consumed /\ [][C3_OnlySendRefills]_vars

C3_Witness ==
    res.op = "get_para" /\ res.out = "Ok" /\ res.before.val = NONE /\ res.val = NONE

\* C5: a failure raised in a body sits in that context's err field until the
\* resume call returns on the resumer's stack, which gets the payload that was
\* raised and leaves err empty; no context's failure is delivered twice and
\* none is delivered that was not raised.
C5_FailureDelivered ==
    \A c \in Ctxs :
        /\ Len(delivered[c]) <= 1
        /\ ctx[c].err # NoErr => ctx[c].err = raised[c]
        /\ delivered[c] # <<>> =>
              /\ delivered[c][1] = raised[c]
              /\ ctx[c].err = NoErr
              /\ st[c] = "failed" /\ top(Env) # c
        /\ (raised[c] # NoErr /\ delivered[c] = <<>>) =>
              /\ ctx[c].err = raised[c]
              /\ pend.c = c /\ pend.k \in {"done", "ret"}

C5_Witness ==
    \E c \in Ctxs : delivered[c] = <<"Custom">> /\ ctx[c].err = NoErr

\* C6: the completion handler of a coroutine whose used stack equals its
\* capacity terminates the process and does not put the stack into the pool,
\* also when the capacity is the configured default.
C6_OverflowExits ==
    /\ (fin.c # NULL /\ fin.used = fin.size)
          => (exited /\ fin.c \notin pool /\ fin.log = "error")
    /\ exited => (fin.c # NULL /\ fin.used = fin.size)

C6_Witness ==
    fin.c # NULL /\ fin.used = fin.size /\ fin.size = fin.cfg /\ exited

\* C7: the completion handler of a coroutine whose used stack differs from its
\* capacity puts the stack into the pool exactly when the capacity equals
\* get_stack_size(), and the process goes on.
C7_PoolIffDefault ==
    (fin.c # NULL /\ fin.used # fin.size)
      => /\ (fin.c \in pool) <=> (fin.size = fin.cfg)
         /\ ~exited

C7_Witness ==
    fin.c # NULL /\ fin.used # fin.size /\ fin.size = fin.cfg /\ fin.c \in pool

\* C8: the completion handler runs once for a coroutine, after its body has
\* handed control back to the parent for good (never while it is fresh,
\* running or suspended), not a second time, and never for a plain generator.
C8_DoneOnce ==
    \A c \in Ctxs :
        /\ doneCount[c] <= 1
        /\ doneCount[c] = 1 =>
              /\ IsCoroutine(ctx, c)
              /\ st[c] \in {"returned", "failed"}
              /\ top(Env) # c /\ ctx[ctx[c].parent].child # c
        /\ (st[c] \in {"returned", "failed"} /\ IsCoroutine(ctx, c)
               /\ ~(pend.k = "done" /\ pend.c = c /\ ~exited))
              => doneCount[c] = 1

C8_Witness ==
    \E c \in Ctxs : doneCount[c] = 1 /\ st[c] = "returned" /\ pend = Idle

\* C9: is_generator() is true exactly while some generator or coroutine is
\* linked into the thread's chain: false before anything was spawned or
\* resumed, true while one runs (also as the ancestor of a nested one), false
\* again once the last one has yielded or completed.
C9_IsGenerator ==
    /\ is_generator(Env) <=> (\E c \in Ctxs : st[c] = "running")
    /\ (\A c \in Ctxs : st[c] = "none") => ~is_generator(Env)

C9_Witness ==
    /\ is_generator(Env)
    /\ \E c, d \in Ctxs : c # d /\ st[c] = "running" /\ st[d] = "running"
                          /\ ctx[d].parent = c
    /\ \E c \in Ctxs : st[c] = "running" /\ top(Env) # c

\* C10: coroutine_ctx() is None when no linked context carries local storage
\* and otherwise the innermost linked context that does, never the root;
\* get_local_data() is that context's local-storage pointer, null exactly when
\* coroutine_ctx() is None.
C10_CoroutineCtx ==
    LET inner == InnermostCoroutine(Env.cx, Chain) IN
    /\ coroutine_ctx(Env) = inner
    /\ coroutine_ctx(Env) # ROOT
    /\ get_local_data(Env) = IF inner = NULL THEN NULL ELSE Env.cx[inner].local_data
    /\ (get_local_data(Env) = NULL) <=> (coroutine_ctx(Env) = NULL)

C10_Witness ==
    \E c \in Ctxs :
        /\ coroutine_ctx(Env) = c /\ top(Env) # c /\ top(Env) # ROOT
        /\ ctx[top(Env)].local_data = NULL /\ get_local_data(Env) = LocalPtr(c)

(* ------------------------- several threads ----------------------------- *)

\* ContextStack::current() on thread t
TEnv(t) == current(th.rp[tls_slot(t)], th.cx, RootBox(t))

\* c is linked under its parent
Linked(cx, c) == cx[c].parent # NULL /\ cx[cx[c].parent].child = c

\* thread t finishes an operation that leaves the contexts as cx1 and the
\* ownership as own1; current() has stored the root pointer in t's cell
TStep(t, cx1, own1) ==
    LET rp1 == [th.rp EXCEPT ![tls_slot(t)] = TEnv(t).root] IN
    /\ th' = [rp |-> rp1, cx |-> cx1, own |-> own1, last |-> t,
              touched |-> {a \in TAddrs : cx1[a] # th.cx[a]},
              moved |-> {u \in Threads : rp1[u] # th.rp[u]}]
    /\ UNCHANGED <<root_p, ctx, st, nres, pend, res, fin, written, observed,
                   raised, delivered, doneCount, pool, exited, gen_types>>

\* thread t calls current() for the first time
TCurrent(t) ==
    /\ th.rp[tls_slot(t)] = NULL
    /\ TStep(t, TEnv(t).cx, th.own)

\* thread t creates a generator; Contexts are never handed to another thread
TSpawn(t) ==
    /\ \E a \in TCtxs : th.own[a] = 0
    /\ LET a == CHOOSE a \in TCtxs :
                    th.own[a] = 0 /\ \A b \in TCtxs : th.own[b] = 0 => a <= b
       IN TStep(t, [TEnv(t).cx EXCEPT ![a] = Context_new],
                [th.own EXCEPT ![a] = t])

\* thread t resumes one of its generators from whatever it is executing
TResume(t, c) ==
    /\ th.own[c] = t
    /\ LET env == TEnv(t)
           cx1 == [env.cx EXCEPT ![c]._ref = @ + 1]
       IN /\ ~Linked(env.cx, c)
          /\ TStep(t, push_context([root |-> env.root, cx |-> cx1], c), th.own)

\* the generator executing on thread t yields
TYield(t) ==
    /\ th.rp[tls_slot(t)] # NULL
    /\ LET env == TEnv(t)
           c   == top(env)
           cx1 == [env.cx EXCEPT ![c]._ref = @ - 1]
       IN /\ c # env.root
          /\ TStep(t, pop_context([root |-> env.root, cx |-> cx1], c), th.own)

NextThreads ==
    \/ \E t \in Threads : TCurrent(t)
    \/ \E t \in Threads : TSpawn(t)
    \/ \E t \in Threads, c \in TCtxs : TResume(t, c)
    \/ \E t \in Threads : TYield(t)

SpecThreads == Init /\ [][NextThreads]_vars

\* the thread a context belongs to: a root box to the thread it was made for
Owner(a) == IF a \in Threads THEN a ELSE th.own[a]

\* C11: an accessor of the coroutine path never raises TypeErr, whatever the
\* dynamic type of the slot's holder: the call returns to the body, which has
\* not failed, also when the type asked for is not the holder's.
C11_UncheckedNeverTypeErr ==
    res.op \in UncheckedOps
      => /\ res.out # type_error
         /\ st[res.c] # "failed" /\ raised[res.c] = NoErr
         /\ ctx[res.c].err = NoErr

C11_Witness ==
    /\ res.op = "coroutine_get_para" /\ res.before.ty # res.T
    /\ res.out = "Ok" /\ res.before.val # NONE /\ res.val # res.before.val
    /\ st[res.c] = "running"

\* C12: current() builds the root only when the thread has none, as a context
\* that is its own parent and has no child; once the thread has a root, the
\* call answers with that root and leaves it, links included, as it is.
C12_RootBuiltOnce ==
    /\ root_p = NULL =>
          /\ Env.root = ROOT
          /\ Env.cx[ROOT].parent = ROOT /\ Env.cx[ROOT].child = NULL
          /\ \A c \in Ctxs : Env.cx[c] = ctx[c]
    /\ root_p # NULL =>
          /\ Env.root = root_p
          /\ Env.cx = ctx

C12_Witness ==
    /\ root_p = ROOT /\ ctx[ROOT].child # NULL /\ ctx[ROOT].parent # ROOT
    /\ Env.cx[ROOT] = ctx[ROOT]

\* C13: top() is the one context that is executing: the root while nothing is
\* linked under it, otherwise the innermost linked context, whose body is
\* running; when a body has yielded or ended, it is the parent that body
\* handed control to.
C13_TopIsExecuting ==
    LET ch == Chain
        t  == top(Env)
    IN /\ t = IF ch = <<>> THEN ROOT ELSE ch[Len(ch)]
       /\ \A c \in Ctxs : (st[c] = "running") <=> (\E i \in 1..Len(ch) : ch[i] = c)
       /\ t # ROOT => st[t] = "running"
       /\ pend.k \in {"ret", "done"} => (t = ctx[pend.c].parent /\ t # pend.c)

C13_Witness ==
    /\ top(Env) \in Ctxs /\ ctx[top(Env)].parent = ROOT
    /\ pend.k = "ret" /\ st[pend.c] = "suspended"

\* C14, as stated: in every state the root is its own parent, so that
\* Context::is_generator() is false for the root and true for every non-root
\* context linked into the chain.
C14_RootOwnParentAlways ==
    LET ch == Chain IN
    /\ Env.cx[ROOT].parent = ROOT
    /\ ~Context_is_generator(Env.cx, ROOT)
    /\ \A i \in 1..Len(ch) : Context_is_generator(Env.cx, ch[i])

\* C14, amended: the root is its own parent exactly while nothing is linked
\* under it; while something is, the root's parent field holds the top
\* context. Context::is_generator() is true for every non-root context linked
\* into the chain, and for the root it is false exactly while the chain is
\* empty.
C14_RootOwnParentWhenIdle ==
    LET ch == Chain IN
    /\ (Env.cx[ROOT].parent = ROOT) <=> (ch = <<>>)
    /\ ch # <<>> => Env.cx[ROOT].parent = ch[Len(ch)]
    /\ Context_is_generator(Env.cx, ROOT) <=> (ch # <<>>)
    /\ \A i \in 1..Len(ch) : Context_is_generator(Env.cx, ch[i])

C14_Witness ==
    /\ Len(Chain) = 2 /\ Context_is_generator(Env.cx, ROOT)
    /\ Context_is_generator(Env.cx, Chain[1]) /\ Env.cx[Chain[1]].parent = ROOT

C16_DebugWhenUsageHigh ==
    (fin.c # NULL /\ fin.used # fin.size)
      => /\ (fin.log = "debug") <=> HighUsage(fin.used, fin.size)
         /\ (fin.c \in pool) <=> (fin.size = fin.cfg)

\* C16, amended: on the path without overflow the handler writes the debug
\* report exactly when the low bit of the coroutine's stack_size() is set,
\* whatever the usage is, and the stack is recycled or not regardless of it.
C16_DebugWhenFlagBit ==
    (fin.c # NULL /\ fin.used # fin.size)
      => /\ (fin.log = "debug") <=> (fin.stack_size % 2 = 1)
         /\ (fin.c \in pool) <=> (fin.size = fin.cfg)
         /\ ~exited

C16_Witness ==
    /\ fin.c # NULL /\ fin.used = 0 /\ fin.size = MaxSize
    /\ fin.log = "debug" /\ fin.stack_size % 2 = 1
    /\ fin.size # fin.cfg /\ fin.c \notin pool

\* C17: threads that have called current() have different roots, the contexts
\* linked under a thread's root are that thread's own, and an operation run by
\* one thread writes no context and no root pointer of another thread.
C17_ThreadsIndependent ==
    /\ \A t, u \in Threads :
          (t # u /\ th.rp[t] # NULL /\ th.rp[u] # NULL) => th.rp[t] # th.rp[u]
    /\ \A t \in Threads : th.rp[t] # NULL =>
          LET ch == ChainFrom(th.cx, th.cx[th.rp[t]].child) IN
          /\ \A i \in 1..Len(ch) : Owner(ch[i]) = t
          /\ Owner(th.cx[th.rp[t]].parent) = t
    /\ \A a \in th.touched : Owner(a) = th.last
    /\ th.moved \subseteq {th.last}

C17_Witness ==
    /\ \A t \in Threads : th.rp[t] # NULL /\ th.cx[th.rp[t]].child # NULL
    /\ th.last = MaxThread /\ th.rp[MaxThread] \in th.touched
    /\ th.cx[th.rp[1]].parent # th.rp[1]

\* the parent links followed from c: the contexts passed before the root, or
\* a sequence ending in NULL when a link is null or n links did not reach the
\* root
RECURSIVE ParentPath(_, _, _, _)
ParentPath(cx, root, c, n) ==
    IF c = root THEN <<>>
    ELSE IF c = NULL \/ n = 0 THEN <<NULL>>
    ELSE <<c>> \o ParentPath(cx, root, cx[c].parent, n - 1)

\* 1 when s ends in NULL, 0 otherwise
Broken(s) == IF s # <<>> /\ s[Len(s)] = NULL THEN 1 ELSE 0

\* C18: is_generator() (the root has a child) is true exactly when top() is
\* a context other than the root.
C18_ActiveNotionsAgree ==
    is_generator(Env) <=> (top(Env) # Env.root)

C18_Witness ==
    /\ is_generator(Env) /\ top(Env) # ROOT
    /\ Env.cx[ROOT].child # top(Env)

\* C19: the parent links followed from top() reach the root without meeting a
\* null link or a context twice: they pass exactly the contexts linked under
\* the root, innermost first, so the walks of coroutine_ctx() and
\* get_local_data() end.
C19_ParentChainReachesRoot ==
    LET path == ParentPath(Env.cx, Env.root, top(Env), Cardinality(Ctxs))
        ch   == Chain
    IN /\ Broken(path) = 0
       /\ Len(path) = Len(ch)
       /\ \A i \in 1..Len(path) : path[i] = ch[Len(ch) + 1 - i]
       /\ \A i, j \in 1..Len(path) : path[i] = path[j] => i = j
       /\ coroutine_ctx(Env) \in {NULL} \cup Ctxs
       /\ (get_local_data(Env) = NULL) <=> (coroutine_ctx(Env) = NULL)

C19_Witness ==
    /\ Len(ParentPath(Env.cx, Env.root, top(Env), Cardinality(Ctxs))) = 2
    /\ Env.cx[Env.cx[top(Env)].parent].parent = ROOT
    /\ coroutine_ctx(Env) = Env.cx[top(Env)].parent

\* C20: a checked access that failed with TypeErr has left the slot as it
\* was: after a mismatched get_para the inbound value is still there for a
\* get_para of the holder's type, after a mismatched set_ret the outbound
\* slot still holds what it held, and a set_ret of the holder's type succeeds.
C20_FailedAccessKeepsSlot ==
    (res.op \in {"get_para", "set_ret"} /\ res.out = type_error)
      => IF res.op = "get_para"
           THEN /\ get_para(ctx[res.c], res.before.ty).out = "Ok"
                /\ get_para(ctx[res.c], res.before.ty).val = res.before.val
           ELSE /\ ctx[res.c].ret.val = res.before.val
                /\ ctx[res.c].ret.ty = res.before.ty
                /\ set_ret(ctx[res.c], res.before.ty, res.v).out = "Ok"

C20_Witness ==
    /\ res.op = "set_ret" /\ res.out = type_error
    /\ res.before.val # NONE /\ res.v # res.before.val
    /\ ctx[res.c].ret.val = res.before.val

====
